---- MODULE Spec2Model ----
(***************************************************************************)
(* Model of the dynamic-diffuser control loop:                             *)
(*   - DiffuserEnv (src/software/diffuser_env.py): actuator state, action  *)
(*     decoding, legality mask, episode counter, reset/step with their     *)
(*     sensor acquisition;                                                 *)
(*   - MagnetController._send_command (src/software/commander.py): the     *)
(*     actuator link;                                                      *)
(*   - ReplayBuffer and DQNAgent (src/software/model.py): replay memory,   *)
(*     masked epsilon-greedy selection, update_model with its batch and    *)
(*     the two arguments of its loss, save and load;                       *)
(*   - DiffuserEnv._calculate_reward;                                      *)
(*   - the scripts train_simple.py and evaluate.py: their loops, their     *)
(*     exception paths and the teardown of the Environment.                *)
(***************************************************************************)
EXTENDS Integers, Sequences, FiniteSets, TLC

VARIABLES
    magnet_states,  \* DiffuserEnv.magnet_states: actuator -> 0 (IN) / 1 (OUT)
    current_step,   \* DiffuserEnv.current_step
    is_connected,   \* MagnetController.is_connected (and serial_conn is set)
    wire,           \* per actuator, <<direction>> of the last frame written to
                    \* the serial line, NoCommand while none was written
    last,           \* the last reset()/step() call: what it issued, wrote,
                    \* acquired and returned
    buffer,         \* ReplayBuffer.buffer (deque(maxlen=capacity))
    history,        \* every transition handed to push, in call order
    policy_net,     \* DQNAgent.policy_net parameters
    target_net,     \* DQNAgent.target_net parameters
    tau,            \* DQNAgent.tau, in units of 1 / TauDen
    upd,            \* the last update_model() call
    sel,            \* select_action: its mask argument and, once called, its result
    call,           \* the last call made outside reset()/step(): which operation,
                    \* whether it succeeded, its arguments and what it produced
    file,           \* what the model file on disk holds
    loop            \* the running script (train_simple.py or evaluate.py): its
                    \* position, its counters and what it has torn down

vars == <<magnet_states, current_step, is_connected, wire, last,
          buffer, history, policy_net, target_net, tau, upd, sel,
          call, file, loop>>

envVars == <<magnet_states, current_step, is_connected, wire, last>>
agentVars == <<buffer, history, policy_net, target_net, tau, upd>>

-----------------------------------------------------------------------------
(* Sizes.  The source fixes nine actuators (the literals 9, 18 and 19 in    *)
(* diffuser_env.py); the model keeps the same arithmetic with N actuators.  *)

N == 2

\* How many step() calls of one episode Next follows.
StepBound == 3

\* How far past max_steps NextEpisode lets the caller go on stepping.
Overrun == 2

ACTION_IN == 0

ACTION_OUT == 1

HEADER1 == 170

HEADER2 == 85

OFFSET == 10

max_steps == 1000

Magnets == 0 .. N - 1

NO_OP == 2 * N

\* spaces.Discrete(2N+1)
ActionSpace == 0 .. 2 * N

\* What a caller may hand to step(): every action of the space and integers
\* outside it.
ActionInputs == ActionSpace \cup {-1, 2 * N + 1, 19}

NoCommand == <<>>

NoMask == <<>>

\* What a call outside reset()/step() leaves in call: the operation, whether
\* it succeeded, its arguments with the outcomes drawn for it, its product.
Called(op, ok, arg, out) == [op |-> op, ok |-> ok, arg |-> arg, out |-> out]

NoCall == Called("init", TRUE, <<>>, <<>>)

-----------------------------------------------------------------------------
(* MagnetController._send_command                                           *)

\* The four bytes of one command.
Command(magnet_id, action) ==
    <<HEADER1, HEADER2, magnet_id + OFFSET, action + OFFSET>>

send_command_any_action(magnet_id, action, written) ==
    /\ is_connected
    /\ 0 <= magnet_id /\ magnet_id <= N - 1
    /\ written

\* TRUE iff _send_command writes the frame: the link is connected, the
\* arguments pass validation and serial write/flush do not raise (written).
send_command(magnet_id, action, written) ==
    /\ is_connected
    /\ 0 <= magnet_id /\ magnet_id <= N - 1
    /\ action \in {ACTION_IN, ACTION_OUT}
    /\ written

\* The wire after the frames of one call: a frame for actuator i replaces
\* what was last written for i.
RECURSIVE wire_after(_, _)
wire_after(w, frames) ==
    IF frames = <<>> THEN w
    ELSE wire_after([w EXCEPT ![Head(frames)[3] - OFFSET] = << Head(frames)[4] - OFFSET >>],
                    Tail(frames))

\* What a caller may hand to _send_command: ids and directions inside and
\* on both sides of the valid ranges.
IdInputs == -1 .. N

DirectionInputs == -1 .. 2

\* _send_command(magnet_id, action) called directly; it returns whether the
\* frame was written.
SendCommand(magnet_id, action, written) ==
    LET ok == send_command(magnet_id, action, written)
        frame == IF ok THEN Command(magnet_id, action) ELSE <<>>
    IN  /\ wire' = IF ok THEN wire_after(wire, <<frame>>) ELSE wire
        /\ call' = Called("_send_command", ok,
                          [magnet_id |-> magnet_id, action |-> action,
                           connected |-> is_connected, raised |-> ~written],
                          frame)
        /\ UNCHANGED <<magnet_states, current_step, is_connected, last,
                       agentVars, sel, file, loop>>

\* disconnect(): closes the serial connection if one is open.
disconnect ==
    is_connected' = FALSE

Disconnect ==
    /\ is_connected
    /\ disconnect
    /\ call' = Called("disconnect", TRUE, <<>>, <<>>)
    /\ UNCHANGED <<magnet_states, current_step, wire, last,
                   agentVars, sel, file, loop>>

-----------------------------------------------------------------------------
(* DiffuserEnv._calculate_reward                                            *)

\* An Observation is a grid of num_frames rows of num_channels magnitudes.
\* Magnitudes are whole multiples 0 .. ObsMax of 1e-6, the floor that
\* _calculate_reward adds to each deviation.
num_channels == 3

NumFrames == 2

ObsMax == 1

\* 1.0 in units of 1e-6.
ONE == 1000000

Channels == 1 .. num_channels

Observations == [1 .. NumFrames -> [Channels -> 0 .. ObsMax]]

\* What a call returns in place of an observation when acquire_data raises.
NoObservation == <<>>

\* The observation of a silent room.
Quiet == [t \in 1 .. NumFrames |-> [c \in Channels |-> 0]]

\* Observations a reset() or step() may form from what acquire_data returns:
\* in every frame the first k channels at ObsMax and the others at 0.
SensorReadings ==
    { [t \in 1 .. NumFrames |-> [c \in Channels |-> IF c <= k THEN ObsMax ELSE 0]] :
        k \in 0 .. num_channels }

ChannelOrders ==
    { f \in [Channels -> Channels] : \A i, j \in Channels : i # j => f[i] # f[j] }

\* observation[:, perm]
permute_channels(observation, perm) ==
    [t \in DOMAIN observation |-> [c \in Channels |-> observation[t][perm[c]]]]

\* The sum of f[lo], ..., f[hi], added in index order.
RECURSIVE sum(_, _, _)
sum(f, lo, hi) == IF lo > hi THEN 0 ELSE f[lo] + sum(f, lo + 1, hi)

\* The largest r with r * r <= n.
RECURSIVE sqrt_from(_, _)
sqrt_from(n, r) == IF (r + 1) * (r + 1) > n THEN r ELSE sqrt_from(n, r + 1)

sqrt(n) == sqrt_from(n, 0)

std_from_first_channel(frame) ==
    sqrt(num_channels * sum([c \in Channels |-> (frame[c] - frame[1]) * (frame[c] - frame[1])],
                            1, num_channels))

\* np.std over one frame's channels, times num_channels:
\* std = sqrt(mean(x^2) - mean(x)^2), so num_channels * std is
\* sqrt(num_channels * sum(x^2) - sum(x)^2).
std(frame) ==
    LET s1 == sum(frame, 1, num_channels)
        s2 == sum([c \in Channels |-> frame[c] * frame[c]], 1, num_channels)
    IN  sqrt(num_channels * s2 - s1 * s1)

\* np.mean(1.0 / (std_devs + 1e-6)), in units of 1.0.
calculate_reward(observation) ==
    LET frames == DOMAIN observation
        inverse == [t \in frames |->
                        (ONE * num_channels) \div (std(observation[t]) + num_channels)]
    IN  sum(inverse, 1, Cardinality(frames)) \div Cardinality(frames)

\* _calculate_reward applied to an acquired observation and to the
\* observation with its channel columns permuted.
CalculateReward(perm) ==
    /\ call.op = "_get_observation"
    /\ LET observation == call.out
           permuted == permute_channels(observation, perm)
       IN  call' = Called("_calculate_reward", TRUE,
                          [observation |-> observation, permuted |-> permuted],
                          [original |-> calculate_reward(observation),
                           permuted |-> calculate_reward(permuted)])
    /\ UNCHANGED <<envVars, agentVars, sel, file, loop>>

-----------------------------------------------------------------------------
(* DiffuserEnv                                                              *)

action_masks_noop_legal(states) ==
    [a \in ActionSpace |->
        IF a = NO_OP THEN TRUE
        ELSE IF a < N THEN states[a] # ACTION_IN
        ELSE states[a - N] = ACTION_IN]

\* mask = ones; mask[2N] = False; per actuator i: IN -> mask[i] = False,
\* otherwise mask[i+N] = False.
action_masks(states) ==
    [a \in ActionSpace |->
        IF a = NO_OP THEN FALSE
        ELSE IF a < N THEN states[a] # ACTION_IN
        ELSE states[a - N] = ACTION_IN]

truncated_after(step) == step > max_steps

truncated_at_once(step) == step >= 1

\* truncated = self.current_step >= self.max_steps
truncated(step) == step >= max_steps

take_action_no_record(action, written) ==
    IF action = NO_OP
    THEN [states |-> magnet_states, issued |-> <<>>, sent |-> <<>>]
    ELSE
        LET magnet_id == action % N
            move == IF action >= N THEN ACTION_OUT ELSE ACTION_IN
        IN  IF magnet_states[magnet_id] # move
            THEN [states |-> magnet_states,
                  issued |-> << <<magnet_id, move>> >>,
                  sent |-> IF send_command(magnet_id, move, written)
                           THEN << Command(magnet_id, move) >> ELSE <<>>]
            ELSE [states |-> magnet_states, issued |-> <<>>, sent |-> <<>>]

take_action_extend_above(action, written) ==
    IF action = NO_OP
    THEN [states |-> magnet_states, issued |-> <<>>, sent |-> <<>>]
    ELSE
        LET magnet_id == action % N
            move == IF action > N THEN ACTION_OUT ELSE ACTION_IN
        IN  IF magnet_states[magnet_id] # move
            THEN [states |-> [magnet_states EXCEPT ![magnet_id] = move],
                  issued |-> << <<magnet_id, move>> >>,
                  sent |-> IF send_command(magnet_id, move, written)
                           THEN << Command(magnet_id, move) >> ELSE <<>>]
            ELSE [states |-> magnet_states, issued |-> <<>>, sent |-> <<>>]

take_action_always_sends(action, written) ==
    IF action = NO_OP
    THEN [states |-> magnet_states, issued |-> <<>>, sent |-> <<>>]
    ELSE
        LET magnet_id == action % N
            move == IF action >= N THEN ACTION_OUT ELSE ACTION_IN
        IN  [states |-> [magnet_states EXCEPT ![magnet_id] = move],
             issued |-> << <<magnet_id, move>> >>,
             sent |-> IF send_command(magnet_id, move, written)
                      THEN << Command(magnet_id, move) >> ELSE <<>>]

\* _take_action: the new magnet_states, the commands handed to the
\* controller and the frames the controller wrote.
take_action(action, written) ==
    IF action = NO_OP
    THEN [states |-> magnet_states, issued |-> <<>>, sent |-> <<>>]
    ELSE
        LET magnet_id == action % N
            move == IF action >= N THEN ACTION_OUT ELSE ACTION_IN
        IN  IF magnet_states[magnet_id] # move
            THEN [states |-> [magnet_states EXCEPT ![magnet_id] = move],
                  issued |-> << <<magnet_id, move>> >>,
                  sent |-> IF send_command(magnet_id, move, written)
                           THEN << Command(magnet_id, move) >> ELSE <<>>]
            ELSE [states |-> magnet_states, issued |-> <<>>, sent |-> <<>>]

at_acquisition_before_action(act) ==
    [states |-> magnet_states, wire |-> wire]

\* The ActuatorState and the link as they are when step() calls
\* _get_observation: _take_action has returned.
at_acquisition(act) ==
    [states |-> act.states, wire |-> wire_after(wire, act.sent)]

get_info_before_action ==
    action_masks(magnet_states)

\* _get_info(): the mask of magnet_states as it is when the call is made,
\* after the assignments of the reset() or step() that makes it.
get_info ==
    action_masks(magnet_states')

\* step(action).  written: the serial write succeeds; acquired: acquire_data
\* returns (otherwise task.read raises and step returns nothing); reading:
\* the observation _get_observation forms from what it returns.
step(action, written, acquired, reading) ==
    LET act == take_action(action, written)
    IN  /\ magnet_states' = act.states
        /\ wire' = wire_after(wire, act.sent)
        /\ current_step' = IF acquired THEN current_step + 1 ELSE current_step
        /\ last' = [op |-> "step", action |-> action,
                    prev |-> last.op, prev_returned |-> ~last.raised,
                    pre |-> magnet_states,
                    issued |-> act.issued, sent |-> act.sent,
                    acquisitions |-> 1,
                    sensed |-> at_acquisition(act),
                    raised |-> ~acquired,
                    observation |-> IF acquired THEN reading ELSE NoObservation,
                    reward |-> IF acquired THEN calculate_reward(reading) ELSE 0,
                    terminated |-> FALSE,
                    truncated |-> acquired /\ truncated(current_step + 1),
                    mask |-> IF acquired THEN get_info ELSE NoMask]
        /\ UNCHANGED is_connected

\* step() called by a caller that touches nothing else.
Step(action, written, acquired, reading) ==
    /\ step(action, written, acquired, reading)
    /\ UNCHANGED <<agentVars, sel, call, file, loop>>

RECURSIVE reset_commands_moved(_)
reset_commands_moved(i) ==
    IF i = N THEN <<>>
    ELSE (IF magnet_states[i] = ACTION_OUT THEN << <<i, ACTION_IN>> >> ELSE <<>>)
         \o reset_commands_moved(i + 1)

\* for i in range(N): self.controller.magnet_in(i)
RECURSIVE reset_commands(_)
reset_commands(i) ==
    IF i = N THEN <<>> ELSE << <<i, ACTION_IN>> >> \o reset_commands(i + 1)

\* The frames written for a sequence of issued commands; written[i] tells
\* whether the write for actuator i succeeds.
RECURSIVE frames_of(_, _)
frames_of(issued, written) ==
    IF issued = <<>> THEN <<>>
    ELSE LET c == Head(issued)
         IN  (IF send_command(c[1], c[2], written[c[1]])
              THEN << Command(c[1], c[2]) >> ELSE <<>>)
             \o frames_of(Tail(issued), written)

\* reset().  reset returns no reward.
reset(written, acquired, reading) ==
    LET issued == reset_commands(0)
        sent == frames_of(issued, written)
    IN  /\ magnet_states' = [i \in Magnets |-> 0]
        /\ wire' = wire_after(wire, sent)
        /\ current_step' = 0
        /\ last' = [op |-> "reset", action |-> NO_OP,
                    prev |-> last.op, prev_returned |-> ~last.raised,
                    pre |-> magnet_states,
                    issued |-> issued, sent |-> sent,
                    acquisitions |-> 1,
                    sensed |-> [states |-> [i \in Magnets |-> 0],
                                wire |-> wire_after(wire, sent)],
                    raised |-> ~acquired,
                    observation |-> IF acquired THEN reading ELSE NoObservation,
                    reward |-> 0,
                    terminated |-> FALSE,
                    truncated |-> FALSE,
                    mask |-> IF acquired THEN get_info ELSE NoMask]
        /\ UNCHANGED is_connected

\* reset() called by a caller that touches nothing else.
Reset(written, acquired, reading) ==
    /\ reset(written, acquired, reading)
    /\ UNCHANGED <<agentVars, sel, call, file, loop>>

\* DiffuserEnv.__init__: connect() may fail (is_connected stays False) and
\* construction goes on either way.
InitEnv ==
    /\ magnet_states = [i \in Magnets |-> 0]
    /\ current_step = 0
    /\ is_connected \in BOOLEAN
    /\ wire = [i \in Magnets |-> NoCommand]
    /\ last = [op |-> "init", action |-> NO_OP,
               prev |-> "init", prev_returned |-> TRUE,
               pre |-> [i \in Magnets |-> 0], issued |-> <<>>, sent |-> <<>>,
               acquisitions |-> 0,
               sensed |-> [states |-> [i \in Magnets |-> 0],
                           wire |-> [i \in Magnets |-> NoCommand]],
               raised |-> FALSE, observation |-> NoObservation, reward |-> 0,
               terminated |-> FALSE, truncated |-> FALSE,
               mask |-> NoMask]

-----------------------------------------------------------------------------
(* ReplayBuffer                                                             *)

\* replay_buffer_capacity
Capacity == 3

\* batch_size
BatchSize == 2

\* How many pushes beyond Capacity NextBuffer follows.
Overflow == 3

\* Observations are grids of frames x channels; two small ones stand for
\* what the sensor produced.
ObsA == << <<0, 0>>, <<1, 1>> >>

ObsB == << <<2, 0>>, <<0, 1>> >>

\* What the training loop hands to push: (state, action, reward, next_state, done).
PushInputs ==
    { <<ObsA, N, 1, ObsB, FALSE>>, <<ObsB, 0, 0, ObsA, TRUE>> }

\* np.ravel: the rows of the grid one after the other.
RECURSIVE ravel(_)
ravel(grid) ==
    IF grid = <<>> THEN <<>> ELSE Head(grid) \o ravel(Tail(grid))

Transition(args) ==
    [state |-> ravel(args[1]), action |-> args[2], reward |-> args[3],
     next_state |-> ravel(args[4]), done |-> args[5]]

append_unbounded(buf, t) == Append(buf, t)

\* deque(maxlen=capacity).append: once full, the leftmost entry is dropped.
append(buf, t) ==
    LET b == Append(buf, t)
    IN  IF Len(b) > Capacity THEN Tail(b) ELSE b

\* ReplayBuffer.push
push(args) ==
    /\ buffer' = append(buffer, Transition(args))
    /\ history' = Append(history, Transition(args))

\* push called by a caller that touches nothing else.
Push(args) ==
    /\ push(args)
    /\ call' = Called("push", TRUE, <<>>, <<>>)
    /\ UNCHANGED <<envVars, policy_net, target_net, tau, upd, sel, file, loop>>

-----------------------------------------------------------------------------
(* DQNAgent                                                                 *)

\* Parameter values lie on a small grid 0 .. PMax.
PMax == 2

PVals == 0 .. PMax

\* One representative parameter of the network: every operation on the
\* parameter sets is elementwise.
ParamNames == {"weight"}

Params == [ParamNames -> PVals]

\* tau as a fraction TauNum / TauDen; the constructor's tau is one of TauInputs.
TauDen == 2

TauInputs == {0, 1, TauDen}

NoBatch == <<>>

Samples_with_replacement(len, k) ==
    [1 .. k -> 1 .. len]

\* random.sample(buffer, batch_size): batch_size distinct positions, in the
\* order drawn.
Samples(len, k) ==
    { s \in [1 .. k -> 1 .. len] : \A i, j \in 1 .. k : i # j => s[i] # s[j] }

soft_update_twice(policy, target) ==
    [p \in ParamNames |->
        (tau * policy[p]
            + (TauDen - tau) * ((tau * policy[p] + (TauDen - tau) * target[p]) \div TauDen))
        \div TauDen]

soft_update_swapped(policy, target) ==
    [p \in ParamNames |-> (tau * target[p] + (TauDen - tau) * policy[p]) \div TauDen]

\* target <- tau * policy + (1 - tau) * target, on the grid.
soft_update(policy, target) ==
    [p \in ParamNames |-> (tau * policy[p] + (TauDen - tau) * target[p]) \div TauDen]

\* gamma = 0.99 as the fraction gamma / GammaDen; regression targets are
\* kept in units of 1 / GammaDen.
gamma == 99

GammaDen == 100

\* QNetwork.forward reduced to its one representative parameter: one score
\* for each action, the weight times the sum of the entry of the state
\* vector that the action reads and the action's own offset.
forward(params, state) ==
    [a \in ActionSpace |-> params["weight"] * (state[(a % Len(state)) + 1] + a)]

\* Tensor.max(1)[0]: the largest score of the row.
max(q) == CHOOSE m \in { q[a] : a \in DOMAIN q } : \A a \in DOMAIN q : q[a] <= m

\* torch.FloatTensor(dones): True is 1.0 and False is 0.0.
float_of(done) == IF done THEN 1 ELSE 0

\* self.policy_net(states).gather(1, actions), for one transition of the batch.
current_q_values(t) ==
    forward(policy_net, t.state)[t.action]

expected_q_values_from_policy(t) ==
    t.reward * GammaDen
        + (1 - float_of(t.done)) * gamma * max(forward(policy_net, t.next_state))

\* rewards + (1 - dones) * self.gamma * self.target_net(next_states).max(1)[0],
\* for one transition of the batch, in units of 1 / GammaDen.
expected_q_values(t) ==
    t.reward * GammaDen
        + (1 - float_of(t.done)) * gamma * max(forward(target_net, t.next_state))

enough_samples_off_by_one(len) == len + 1 >= BatchSize

\* the negation of: len(self.replay_buffer) < self.batch_size
enough_samples(len) == ~(len < BatchSize)

\* update_model().  stepped: the policy parameters after optimizer.step();
\* the batch is what random.sample draws (it raises ValueError when asked
\* for more entries than the buffer holds); current and expected are the
\* two arguments of the loss, one entry for each transition of the batch.
update_model(stepped) ==
    IF ~enough_samples(Len(buffer))
    THEN /\ upd' = [ret |-> "None", batch |-> NoBatch, len |-> Len(buffer),
                    current |-> <<>>, expected |-> <<>>]
         /\ UNCHANGED <<policy_net, target_net>>
    ELSE IF Samples(Len(buffer), BatchSize) = {}
    THEN /\ upd' = [ret |-> "ValueError", batch |-> NoBatch, len |-> Len(buffer),
                    current |-> <<>>, expected |-> <<>>]
         /\ UNCHANGED <<policy_net, target_net>>
    ELSE /\ \E batch \in Samples(Len(buffer), BatchSize) :
                upd' = [ret |-> "loss", batch |-> batch, len |-> Len(buffer),
                        current |-> [i \in 1 .. BatchSize |->
                                        current_q_values(buffer[batch[i]])],
                        expected |-> [i \in 1 .. BatchSize |->
                                        expected_q_values(buffer[batch[i]])]]
         /\ policy_net' = stepped
         /\ target_net' = soft_update(stepped, target_net)

\* update_model() called by a caller that touches nothing else.
UpdateModel(stepped) ==
    /\ update_model(stepped)
    /\ call' = Called("update_model", upd'.ret # "ValueError", <<>>, <<>>)
    /\ UNCHANGED <<envVars, buffer, history, tau, sel, file, loop>>

\* DQNAgent.__init__: target_net.load_state_dict(policy_net.state_dict())
InitAgent ==
    /\ buffer = <<>>
    /\ history = <<>>
    /\ policy_net \in Params
    /\ target_net = policy_net
    /\ tau \in TauInputs
    /\ upd = [ret |-> "init", batch |-> NoBatch, len |-> 0,
              current |-> <<>>, expected |-> <<>>]

\* The model file: absent, unreadable, or a pickled state dict.
NoFile == {}

Corrupt == { <<"corrupt", 0>> }

\* nn.Module.state_dict(): the named parameter values.
state_dict(params) == { <<p, params[p]>> : p \in ParamNames }

load_state_dict_unmatched(blob) == [p \in ParamNames |-> 0]

\* nn.Module.load_state_dict(blob): each parameter takes the value stored
\* under its name.
load_state_dict(blob) ==
    [p \in ParamNames |-> (CHOOSE e \in blob : e[1] = p)[2]]

\* How torch.save may end: the file is written; the path cannot be opened
\* and the file stays as it was; the write breaks off and leaves a file
\* that cannot be read back.
SaveOutcomes == {"saved", "refused", "torn"}

\* save(filepath): torch.save(policy_net.state_dict(), filepath)
save(outcome) ==
    file' = CASE outcome = "saved" -> state_dict(policy_net)
              [] outcome = "refused" -> file
              [] outcome = "torn" -> Corrupt

Save(outcome) ==
    /\ save(outcome)
    /\ call' = Called("save", outcome = "saved", <<>>, <<>>)
    /\ UNCHANGED <<envVars, agentVars, sel, loop>>

\* What load(filepath) raises: torch.load fails on a missing or an
\* unreadable file before any parameter is touched.
load_raises == IF file = NoFile THEN "FileNotFoundError"
               ELSE IF file = Corrupt THEN "UnpicklingError"
               ELSE "None"

\* load(filepath): policy_net.load_state_dict(torch.load(filepath)), then
\* target_net.load_state_dict(torch.load(filepath)).
load ==
    IF load_raises # "None"
    THEN UNCHANGED <<policy_net, target_net>>
    ELSE /\ policy_net' = load_state_dict(file)
         /\ target_net' = load_state_dict(file)

Load ==
    /\ load
    /\ call' = Called("load", load_raises = "None", <<>>, <<>>)
    /\ UNCHANGED <<envVars, buffer, history, tau, upd, sel, file, loop>>

-----------------------------------------------------------------------------
(* DQNAgent.select_action                                                   *)

\* A score is <<s, v>>: s = -1 for -inf, s = 1 for +inf, s = 0 for the
\* finite value v.  Three levels (-inf, finite, +inf) give all-equal and
\* extreme score vectors.
NegInf == <<-1, 0>>

PosInf == <<1, 0>>

FiniteScores == {0}

Scores == {NegInf, PosInf} \cup { <<0, v>> : v \in FiniteScores }

Greater(x, y) == x[1] > y[1] \/ (x[1] = y[1] /\ x[2] > y[2])

\* random.random() returns r / RandDen for an r in 0 .. RandDen - 1 (never
\* 1.0); epsilon is e / RandDen.
RandDen == 3

RandomOutcomes == 0 .. RandDen - 1

EpsilonInputs == {0, 1, RandDen}

Masks == [ActionSpace -> BOOLEAN]

\* q_values[0, ~action_mask] = -inf
masked(q_values, action_mask) ==
    [a \in ActionSpace |-> IF action_mask[a] THEN q_values[a] ELSE NegInf]

\* torch.argmax: the first index holding the maximum.
argmax(q) ==
    CHOOSE a \in DOMAIN q :
        /\ \A b \in DOMAIN q : ~Greater(q[b], q[a])
        /\ \A b \in DOMAIN q : b < a => Greater(q[a], q[b])

valid_actions_unmasked(action_mask) == DOMAIN action_mask

\* np.where(action_mask)[0]
valid_actions(action_mask) == { a \in DOMAIN action_mask : action_mask[a] }

\* select_action(state, epsilon, action_mask).  r: what random.random()
\* returns; q_values: policy_net(state), one of scores, evaluated on the
\* greedy branch only; random.choice picks any element of valid_actions.
select_action(epsilon, r, scores) ==
    /\ ~sel.called
    /\ IF r > epsilon
       THEN \E q_values \in scores :
                LET q == masked(q_values, sel.mask)
                    action == argmax(q)
                IN  sel' = [called |-> TRUE, mask |-> sel.mask, epsilon |-> epsilon,
                            greedy |-> TRUE, action |-> action, score |-> q[action]]
       ELSE \E action \in valid_actions(sel.mask) :
                sel' = [called |-> TRUE, mask |-> sel.mask, epsilon |-> epsilon,
                        greedy |-> FALSE, action |-> action, score |-> NegInf]

\* select_action called once, on any scores, by a caller that touches
\* nothing else.
SelectAction(epsilon, r) ==
    /\ select_action(epsilon, r, [ActionSpace -> Scores])
    /\ call' = Called("select_action", TRUE, <<>>, <<>>)
    /\ UNCHANGED <<envVars, agentVars, file, loop>>

\* No call of select_action yet; mask is the mask it will be given.
Uncalled(mask) ==
    [called |-> FALSE, mask |-> mask, epsilon |-> 0, greedy |-> FALSE,
     action |-> 0, score |-> NegInf]

\* Score vectors with the same score for every action.
FlatScores == { [a \in ActionSpace |-> x] : x \in Scores }

-----------------------------------------------------------------------------
(* train_simple.py and evaluate.py                                          *)

\* Loop limits, scaled down: the source has EPISODES = 500,
\* MAX_STEPS_PER_EPISODE = 100, LEARNING_STARTS = 50, a save every 50
\* episodes and NUM_STEPS = 500.
EPISODES == 2

MAX_STEPS_PER_EPISODE == 2

LEARNING_STARTS == 1

SAVE_EVERY == 1

NUM_STEPS == 2

\* How many steps of train_simple.py NextScripts follows.
TrainBound == 4

\* EPSILON_END in units of 1 / RandDen: the smallest positive rate.
EPSILON_END == 1

\* A script at position pc: its loop counters, the exploration rate, the
\* done flag of the last step, the exception that ended the loop, and which
\* teardown actions have run.
Script(script, pc) ==
    [script |-> script, pc |-> pc, episode |-> 0, step |-> 0, total_steps |-> 0,
     epsilon |-> RandDen, done |-> FALSE, exc |-> "none",
     disconnected |-> FALSE, released |-> FALSE]

\* No script runs.
NoLoop == Script("none", "none")

\* Positions inside the try block of each script.
TryPositions ==
    [train |-> {"reset", "select", "step", "push", "update", "episode_end"},
     evaluate |-> {"select", "step", "reset_again"}]

\* Where each script goes when an exception leaves its try block: the
\* finally clause of train_simple.py starts with agent.save, the one of
\* evaluate.py is env.close().
Finally == [train |-> "finally", evaluate |-> "close"]

after_step_goes_on(acquired, next) == next

\* Where a script goes after env.reset() / env.step(): on when the call
\* returned; the exception of a failed acquisition propagates out of the
\* try block.
after_step(acquired, next) == IF acquired THEN next ELSE Finally[loop.script]

\* train_simple.py:31  state, info = env.reset()
TrainReset(acquired) ==
    /\ loop.script = "train" /\ loop.pc = "reset"
    /\ reset([i \in Magnets |-> TRUE], acquired, Quiet)
    /\ sel' = IF acquired THEN Uncalled(last'.mask) ELSE sel
    /\ loop' = [loop EXCEPT !.pc = after_step(acquired, "select"),
                            !.step = 0,
                            !.exc = IF acquired THEN @ ELSE "acquisition"]
    /\ UNCHANGED <<agentVars, call, file>>

\* train_simple.py:35-41  a random legal action before LEARNING_STARTS,
\* agent.select_action after.
TrainSelect ==
    /\ loop.script = "train" /\ loop.pc = "select"
    /\ IF loop.total_steps < LEARNING_STARTS
       THEN /\ ~sel.called
            /\ \E action \in valid_actions(sel.mask) :
                    sel' = [called |-> TRUE, mask |-> sel.mask, epsilon |-> loop.epsilon,
                            greedy |-> FALSE, action |-> action, score |-> NegInf]
       ELSE \E r \in RandomOutcomes : select_action(loop.epsilon, r, FlatScores)
    /\ loop' = [loop EXCEPT !.pc = "step"]
    /\ UNCHANGED <<envVars, agentVars, call, file>>

\* train_simple.py:43-44  env.step(action); done = terminated or truncated
TrainStep(acquired) ==
    /\ loop.script = "train" /\ loop.pc = "step"
    /\ step(sel.action, TRUE, acquired, Quiet)
    /\ loop' = [loop EXCEPT !.pc = after_step(acquired, "push"),
                            !.done = last'.terminated \/ last'.truncated,
                            !.exc = IF acquired THEN @ ELSE "acquisition"]
    /\ UNCHANGED <<agentVars, sel, call, file>>

\* train_simple.py:47  agent.replay_buffer.push(state, action, reward, next_state, done)
TrainPush ==
    /\ loop.script = "train" /\ loop.pc = "push"
    /\ push(<<ObsA, sel.action, 1, ObsB, loop.done>>)
    /\ loop' = [loop EXCEPT !.pc = "update"]
    /\ UNCHANGED <<envVars, policy_net, target_net, tau, upd, sel, call, file>>

\* The policy parameters optimizer.step() leaves during a script run:
\* each one grid step further, wrapping at PMax.
optimizer_step(policy) == [p \in ParamNames |-> (policy[p] + 1) % (PMax + 1)]

\* train_simple.py:50-60  update_model() once learning has started, the
\* counters, and the end of the step loop.
TrainUpdate ==
    /\ loop.script = "train" /\ loop.pc = "update"
    /\ IF loop.total_steps >= LEARNING_STARTS
       THEN update_model(optimizer_step(policy_net))
       ELSE UNCHANGED <<upd, policy_net, target_net>>
    /\ sel' = Uncalled(last.mask)
    /\ loop' = [loop EXCEPT !.total_steps = @ + 1,
                            !.step = @ + 1,
                            !.pc = IF loop.done \/ loop.step + 1 >= MAX_STEPS_PER_EPISODE
                                   THEN "episode_end" ELSE "select"]
    /\ UNCHANGED <<envVars, buffer, history, tau, call, file>>

\* train_simple.py:63-73  epsilon = max(EPSILON_END, epsilon * EPSILON_DECAY)
\* (on the grid the decay factor is EPSILON_END / RandDen), the periodic
\* save, and the end of the episode loop.
TrainEpisodeEnd(outcome) ==
    LET saving == loop.episode % SAVE_EVERY = 0 /\ loop.episode > 0
        failed == saving /\ outcome # "saved"
        decayed == (loop.epsilon * EPSILON_END) \div RandDen
    IN  /\ loop.script = "train" /\ loop.pc = "episode_end"
        /\ IF saving THEN save(outcome) ELSE outcome = "saved" /\ UNCHANGED file
        /\ loop' = [loop EXCEPT
                        !.epsilon = IF decayed < EPSILON_END THEN EPSILON_END ELSE decayed,
                        !.episode = @ + 1,
                        !.pc = IF failed THEN "finally"
                               ELSE IF loop.episode + 1 < EPISODES THEN "reset"
                               ELSE "finally",
                        !.exc = IF failed THEN "save" ELSE @]
        /\ UNCHANGED <<envVars, agentVars, sel, call>>

\* train_simple.py:75-78  finally: agent.save(MODEL_SAVE_PATH) comes first;
\* when it raises, the rest of the clause does not run.
TrainFinally(outcome) ==
    /\ loop.script = "train" /\ loop.pc = "finally"
    /\ save(outcome)
    /\ loop' = [loop EXCEPT !.pc = IF outcome = "saved" THEN "close" ELSE "exited",
                            !.exc = IF outcome = "saved" THEN @ ELSE "save"]
    /\ UNCHANGED <<envVars, agentVars, sel, call>>

\* env.close(): controller.disconnect(), then finalize_sensor().
Close ==
    /\ loop.pc = "close"
    /\ disconnect
    /\ loop' = [loop EXCEPT !.pc = "exited", !.disconnected = TRUE, !.released = TRUE]
    /\ UNCHANGED <<magnet_states, current_step, wire, last, agentVars, sel, call, file>>

\* KeyboardInterrupt inside the try block.
Interrupt ==
    /\ loop.script \in DOMAIN TryPositions
    /\ loop.pc \in TryPositions[loop.script]
    /\ loop' = [loop EXCEPT !.pc = Finally[loop.script], !.exc = "KeyboardInterrupt"]
    /\ UNCHANGED <<envVars, agentVars, sel, call, file>>

\* evaluate.py:34-41  agent.load(MODEL_PATH); only FileNotFoundError is
\* caught (env.close(), exit()).
EvalLoad ==
    /\ loop.script = "evaluate" /\ loop.pc = "load"
    /\ load
    /\ loop' = [loop EXCEPT !.pc = CASE load_raises = "None" -> "first_reset"
                                     [] load_raises = "FileNotFoundError" -> "close"
                                     [] OTHER -> "exited",
                            !.exc = IF load_raises = "None" THEN @ ELSE "load"]
    /\ UNCHANGED <<envVars, buffer, history, tau, upd, sel, call, file>>

\* evaluate.py:46  env.reset() before the try block, and evaluate.py:77
\* env.reset() inside it.
EvalReset(acquired) ==
    /\ loop.script = "evaluate" /\ loop.pc \in {"first_reset", "reset_again"}
    /\ reset([i \in Magnets |-> TRUE], acquired, Quiet)
    /\ sel' = IF acquired THEN Uncalled(last'.mask) ELSE sel
    /\ loop' = [loop EXCEPT
                    !.pc = IF acquired
                           THEN (IF loop.step < NUM_STEPS THEN "select" ELSE "close")
                           ELSE IF loop.pc = "first_reset" THEN "exited" ELSE "close",
                    !.exc = IF acquired THEN @ ELSE "acquisition"]
    /\ UNCHANGED <<agentVars, call, file>>

\* evaluate.py:50-51  agent.select_action(state, epsilon=0, action_mask)
EvalSelect ==
    /\ loop.script = "evaluate" /\ loop.pc = "select"
    /\ \E r \in RandomOutcomes : select_action(0, r, FlatScores)
    /\ loop' = [loop EXCEPT !.pc = "step"]
    /\ UNCHANGED <<envVars, agentVars, call, file>>

\* evaluate.py:54-77  env.step(action), the plot, and the reset once the
\* episode is over.
EvalStep(acquired) ==
    /\ loop.script = "evaluate" /\ loop.pc = "step"
    /\ step(sel.action, TRUE, acquired, Quiet)
    /\ sel' = IF acquired THEN Uncalled(last'.mask) ELSE sel
    /\ loop' = [loop EXCEPT
                    !.step = IF acquired THEN @ + 1 ELSE @,
                    !.done = last'.terminated \/ last'.truncated,
                    !.pc = after_step(acquired,
                                IF last'.terminated \/ last'.truncated THEN "reset_again"
                                ELSE IF loop.step + 1 < NUM_STEPS THEN "select"
                                ELSE "close"),
                    !.exc = IF acquired THEN @ ELSE "acquisition"]
    /\ UNCHANGED <<agentVars, call, file>>

-----------------------------------------------------------------------------
(* Specifications                                                           *)

\* Nothing was called, no model file exists and no script runs.
InitRest ==
    /\ call = NoCall
    /\ file = NoFile
    /\ loop = NoLoop

\* A connected environment beside a freshly built agent.
InitIdleEnv ==
    /\ InitEnv
    /\ is_connected

\* The agent as one fixed construction, for the runs that leave it alone.
InitIdleAgent ==
    /\ InitAgent
    /\ policy_net = [p \in ParamNames |-> 0]
    /\ tau = 1

\* The environment driven by an arbitrary caller.
Init ==
    /\ InitEnv
    /\ InitIdleAgent
    /\ sel = Uncalled(action_masks(magnet_states))
    /\ InitRest

\* The agent beside an environment nobody calls.
InitAgentRun ==
    /\ InitIdleEnv
    /\ InitAgent
    /\ sel = Uncalled(action_masks(magnet_states))
    /\ InitRest

\* An open link beside the agent in its one fixed construction.
InitIdle ==
    /\ InitIdleEnv
    /\ InitIdleAgent
    /\ sel = Uncalled(action_masks(magnet_states))
    /\ InitRest

StepCall ==
    \E action \in ActionInputs, written \in BOOLEAN, acquired \in BOOLEAN :
        /\ current_step < StepBound
        /\ Step(action, written, acquired, Quiet)

ResetCall ==
    \E written \in [Magnets -> BOOLEAN], acquired \in BOOLEAN :
        Reset(written, acquired, Quiet)

Next == StepCall \/ ResetCall

Spec == Init /\ [][Next]_vars

\* One long episode: the caller extends and retracts actuator 0 or idles,
\* up to and past max_steps.
EpisodeStep ==
    \E action \in {0, N, NO_OP}, acquired \in BOOLEAN :
        /\ current_step < max_steps + Overrun
        /\ Step(action, TRUE, acquired, Quiet)

EpisodeReset ==
    /\ current_step >= max_steps
    /\ Reset([i \in Magnets |-> TRUE], TRUE, Quiet)

NextEpisode == EpisodeStep \/ EpisodeReset

SpecEpisode == Init /\ [][NextEpisode]_vars

\* The replay memory alone.
PushCall ==
    \E args \in PushInputs :
        /\ Len(history) < Capacity + Overflow
        /\ Push(args)

NextBuffer == PushCall

SpecBuffer == InitAgentRun /\ [][NextBuffer]_vars

\* The agent: pushes up to one batch and one more, and updates.
AgentPush ==
    \E args \in PushInputs :
        /\ Len(history) <= BatchSize
        /\ Push(args)

UpdateCall == \E stepped \in Params : UpdateModel(stepped)

NextAgent == AgentPush \/ UpdateCall

SpecAgent == InitIdle /\ [][NextAgent]_vars

\* select_action applied once to every mask with a true entry.
InitSelect ==
    /\ InitIdleEnv
    /\ InitIdleAgent
    /\ \E mask \in Masks :
        /\ \E a \in ActionSpace : mask[a]
        /\ sel = Uncalled(mask)
    /\ InitRest

SelectCall ==
    \E epsilon \in EpsilonInputs, r \in RandomOutcomes :
        SelectAction(epsilon, r)

NextSelect == SelectCall

SpecSelect == InitSelect /\ [][NextSelect]_vars

\* The parameter sets under every agent operation: pushes of one transition
\* up to a batch, update_model, save, load and a greedy select_action that
\* gets all-equal scores.
ParamsPush ==
    /\ Len(history) < BatchSize
    /\ Push(<<ObsA, N, 1, ObsB, FALSE>>)

SaveCall == \E outcome \in SaveOutcomes : Save(outcome)

ParamsSelect ==
    /\ select_action(0, 1, FlatScores)
    /\ call' = Called("select_action", TRUE, <<>>, <<>>)
    /\ UNCHANGED <<envVars, agentVars, file, loop>>

NextParams == ParamsPush \/ UpdateCall \/ SaveCall \/ Load \/ ParamsSelect

SpecParams == InitAgentRun /\ [][NextParams]_vars

\* _calculate_reward on every observation of the grid, under every
\* permutation of its channels.
InitReward ==
    /\ InitIdleEnv
    /\ InitIdleAgent
    /\ sel = Uncalled(action_masks(magnet_states))
    /\ \E observation \in Observations :
            call = Called("_get_observation", TRUE, <<>>, observation)
    /\ file = NoFile
    /\ loop = NoLoop

RewardCall == \E perm \in ChannelOrders : CalculateReward(perm)

NextReward == RewardCall

SpecReward == InitReward /\ [][NextReward]_vars

\* Either script from its first statement after the Environment and the
\* agent are built; evaluate.py finds no model file, an unreadable one or a
\* saved one.
InitScripts ==
    /\ InitIdleEnv
    /\ InitIdleAgent
    /\ sel = Uncalled(action_masks(magnet_states))
    /\ call = NoCall
    /\ \/ /\ loop = Script("train", "reset")
          /\ file = NoFile
       \/ /\ loop = Script("evaluate", "load")
          /\ file \in {NoFile, Corrupt, state_dict([p \in ParamNames |-> PMax])}

TrainResetCall == \E acquired \in BOOLEAN : TrainReset(acquired)

TrainStepCall ==
    \E acquired \in BOOLEAN :
        /\ loop.total_steps < TrainBound
        /\ TrainStep(acquired)

TrainEpisodeEndCall == \E outcome \in SaveOutcomes : TrainEpisodeEnd(outcome)

TrainFinallyCall == \E outcome \in SaveOutcomes : TrainFinally(outcome)

EvalResetCall == \E acquired \in BOOLEAN : EvalReset(acquired)

EvalStepCall == \E acquired \in BOOLEAN : EvalStep(acquired)

NextScripts ==
    \/ TrainResetCall \/ TrainSelect \/ TrainStepCall \/ TrainPush \/ TrainUpdate
    \/ TrainEpisodeEndCall \/ TrainFinallyCall
    \/ EvalLoad \/ EvalResetCall \/ EvalSelect \/ EvalStepCall
    \/ Close \/ Interrupt

SpecScripts == InitScripts /\ [][NextScripts]_vars

\* The actuator link driven directly: any id and direction, on a link that
\* was or was not opened, until it is closed.
SendCall ==
    \E magnet_id \in IdInputs, action \in DirectionInputs, written \in BOOLEAN :
        SendCommand(magnet_id, action, written)

NextLink == SendCall \/ Disconnect

SpecLink == Init /\ [][NextLink]_vars

\* The environment on an open link, with every sensor reading: any action
\* of the space on any reading, and resets.
SenseStep ==
    \E action \in ActionSpace, acquired \in BOOLEAN, reading \in SensorReadings :
        /\ current_step < StepBound
        /\ Step(action, TRUE, acquired, reading)

SenseReset ==
    \E acquired \in BOOLEAN, reading \in SensorReadings :
        Reset([i \in Magnets |-> TRUE], acquired, reading)

NextSense == SenseStep \/ SenseReset

SpecSense == InitIdle /\ [][NextSense]_vars


-----------------------------------------------------------------------------
(* Properties                                                               *)

TrueEntries(mask) == { a \in DOMAIN mask : mask[a] }

AllRetracted == [i \in Magnets |-> 0]

\* The mask in which exactly the extend actions N .. 2N-1 are legal.
ExtendOnlyMask == [a \in ActionSpace |-> a >= N /\ a < 2 * N]

\* C1: in every reachable ActuatorState the legality mask has exactly N true
\* entries, exactly one of the entries i and N+i is true for each actuator
\* i, and the no-op entry 2N is false; so has every mask a call returned.
C1_MaskShape ==
    LET ok(mask) ==
            /\ Cardinality(TrueEntries(mask)) = N
            /\ \A i \in Magnets : mask[i] # mask[N + i]
            /\ ~mask[NO_OP]
    IN  /\ ok(action_masks(magnet_states))
        /\ (last.op # "init" /\ ~last.raised) => ok(last.mask)

\* Some actuator is extended and another retracted after a step that returned.
C1_Witness ==
    /\ last.op = "step" /\ ~last.raised
    /\ \E i, j \in Magnets : magnet_states[i] = 1 /\ magnet_states[j] = 0

\* C2: with exploration_rate = 0 select_action never returns an action whose
\* mask entry is false, whatever the raw scores are.
C2_GreedyLegal ==
    (sel.called /\ sel.epsilon = 0) => sel.mask[sel.action]

\* C3: a reset() that returned leaves all actuators retracted and returns
\* the extend-only mask; step(N) right after it leaves actuator 0 extended
\* and the others retracted, and returns a mask with entry N false, entry 0
\* true and every other entry as in the mask reset() returned.
C3_ExtendAfterReset ==
    /\ (last.op = "reset" /\ ~last.raised) =>
            /\ magnet_states = AllRetracted
            /\ last.mask = ExtendOnlyMask
    /\ (/\ last.op = "step" /\ last.action = N /\ ~last.raised
        /\ last.prev = "reset" /\ last.prev_returned) =>
            /\ magnet_states = [i \in Magnets |-> IF i = 0 THEN 1 ELSE 0]
            /\ ~last.mask[N]
            /\ last.mask[0]
            /\ \A a \in ActionSpace \ {0, N} : last.mask[a] = ExtendOnlyMask[a]

\* step(N) returned right after a reset() that returned.
C3_Witness ==
    /\ last.op = "step" /\ last.action = N /\ ~last.raised
    /\ last.prev = "reset" /\ last.prev_returned
    /\ magnet_states[0] = 1

\* The last min(Capacity, Len(history)) transitions pushed.
MostRecent ==
    LET n == Len(history)
        k == IF n < Capacity THEN n ELSE Capacity
    IN  SubSeq(history, n - k + 1, n)

\* C4: the replay memory never holds more than Capacity transitions, and
\* after any pushes it holds exactly the most recent ones (all of them up
\* to Capacity), in insertion order.
C4_RingBuffer ==
    /\ Len(buffer) <= Capacity
    /\ buffer = MostRecent

\* Capacity + 2 pushes were made and the oldest transition is gone.
C4_Witness ==
    /\ Len(history) = Capacity + 2
    /\ \A p \in 1 .. Len(buffer) : buffer[p] # history[1]
    /\ buffer[Len(buffer)] = history[Len(history)]

\* C5: for each actuator the recorded ActuatorState entry is the direction
\* of the last command written to the actuator link for it (retracted, as
\* constructed, while none was written).
C5_StateIsLastSent ==
    \A i \in Magnets :
        magnet_states[i] = (IF wire[i] = NoCommand THEN 0 ELSE wire[i][1])

\* C6: a step() with an action outside [0, 2N] is rejected before any
\* effect: it raises, no command is issued or written, and ActuatorState and
\* the step counter are as before.
C6_OutOfRangeRejected ==
    [][(last'.op = "step" /\ last'.action \notin ActionSpace) =>
            /\ last'.raised
            /\ last'.issued = <<>>
            /\ last'.sent = <<>>
            /\ magnet_states' = magnet_states
            /\ current_step' = current_step]_vars

\* C7: reset() hands exactly one retract command to the controller for each
\* of the N actuators, whatever their recorded state; when it returns,
\* ActuatorState is all retracted, the step counter is 0 and the returned
\* mask is the extend-only mask.
C7_ResetRetractsAll ==
    last.op = "reset" =>
        /\ Len(last.issued) = N
        /\ \A i \in Magnets : last.issued[i + 1] = <<i, ACTION_IN>>
        /\ ~last.raised =>
            /\ magnet_states = AllRetracted
            /\ current_step = 0
            /\ last.mask = ExtendOnlyMask

\* reset() returned after being called with actuator 0 extended and
\* actuator 1 already retracted.
C7_Witness ==
    /\ last.op = "reset" /\ ~last.raised
    /\ last.pre[0] = 1 /\ last.pre[1] = 0

\* C8: every step() that returns has incremented the step counter by one,
\* returns terminated = false, and returns truncated = true exactly when
\* the incremented counter has reached max_steps; the counter goes back to
\* 0 only in reset().
C8_StepCounter ==
    [][/\ (last'.op = "step" /\ ~last'.raised) =>
            /\ current_step' = current_step + 1
            /\ ~last'.terminated
            /\ last'.truncated <=> (current_step' >= max_steps)
       /\ (current_step # 0 /\ current_step' = 0) => last'.op = "reset"
       /\ current_step' < current_step => last'.op = "reset"]_vars

\* The step that reaches max_steps returned truncated.
C8_Witness ==
    /\ last.op = "step" /\ ~last.raised
    /\ current_step = max_steps
    /\ last.truncated

\* C9: an update_model() called while the replay memory holds fewer than
\* BatchSize transitions returns None (it does not raise) and leaves the
\* policy parameters, the target parameters and the replay memory as they were.
C9_UpdateNoOp ==
    [][(upd' # upd /\ upd'.len < BatchSize) =>
            /\ upd'.ret = "None"
            /\ policy_net' = policy_net
            /\ target_net' = target_net
            /\ buffer' = buffer]_vars

\* update_model() returned None on a replay memory that is not empty.
C9_Witness ==
    /\ upd.ret = "None"
    /\ upd.len = BatchSize - 1
    /\ Len(buffer) = BatchSize - 1

\* C10: with exploration_rate = 1 select_action takes the exploration
\* branch and returns an index whose mask entry is true; and before the
\* call, each index whose mask entry is true is a possible return value.
C10_ExploreLegal ==
    /\ (sel.called /\ sel.epsilon = RandDen) =>
            /\ ~sel.greedy
            /\ sel.mask[sel.action]
    /\ ~sel.called =>
            \A a \in ActionSpace :
                sel.mask[a] =>
                    ENABLED (\E r \in RandomOutcomes :
                                SelectAction(RandDen, r) /\ sel'.action = a)

\* select_action(epsilon = 1) returned on a mask with several legal
\* entries and an illegal one.
C10_Witness ==
    /\ sel.called /\ sel.epsilon = RandDen
    /\ Cardinality(TrueEntries(sel.mask)) > 1
    /\ \E a \in ActionSpace : ~sel.mask[a]

\* C12: an Environment whose actuator link could not be opened at
\* construction is never used: no reset() or step() runs while the link is
\* not connected.
C12_ConnectFailureSurfaced ==
    last.op \in {"reset", "step"} => is_connected

\* The addressed actuator and the direction an action in [0, 2N) decodes to.
DecodedId(a) == a % N

DecodedDirection(a) == IF a < N THEN ACTION_IN ELSE ACTION_OUT

\* C19: a step(a) with a in [0, 2N) legal under the mask of the state it was
\* called in hands exactly one command to the controller, for actuator
\* a mod N with direction retract if a < N and extend otherwise (no other
\* frame is written), flips exactly that actuator's ActuatorState entry and
\* leaves every other entry as it was.
C19_StepDecodes ==
    (/\ last.op = "step"
     /\ last.action \in 0 .. 2 * N - 1
     /\ action_masks(last.pre)[last.action]) =>
        LET id == DecodedId(last.action)
            dir == DecodedDirection(last.action)
        IN  /\ last.issued = << <<id, dir>> >>
            /\ last.sent \in { <<>>, << Command(id, dir) >> }
            /\ magnet_states[id] = 1 - last.pre[id]
            /\ magnet_states[id] = dir
            /\ \A j \in Magnets \ {id} : magnet_states[j] = last.pre[j]

\* The legal step(N) was called with actuator 0 retracted and actuator 1
\* extended, and its frame was written.
C19_Witness ==
    /\ last.op = "step" /\ last.action = N
    /\ last.pre[0] = 0 /\ last.pre[1] = 1
    /\ last.sent = << Command(0, ACTION_OUT) >>

\* C20: step(2N), and step(a) for a in [0, 2N) whose decoded direction is
\* already the addressed actuator's recorded state, hand no command to the
\* controller, write nothing, and leave ActuatorState and the legality mask
\* as they were.
C20_SkippedStep ==
    (/\ last.op = "step"
     /\ \/ last.action = NO_OP
        \/ /\ last.action \in 0 .. 2 * N - 1
           /\ last.pre[DecodedId(last.action)] = DecodedDirection(last.action)) =>
        /\ last.issued = <<>>
        /\ last.sent = <<>>
        /\ magnet_states = last.pre
        /\ action_masks(magnet_states) = action_masks(last.pre)
        /\ ~last.raised => last.mask = action_masks(last.pre)

\* step(0) returned although actuator 0 was already retracted, with
\* actuator 1 extended.
C20_Witness ==
    /\ last.op = "step" /\ last.action = 0 /\ ~last.raised
    /\ last.pre[0] = 0 /\ last.pre[1] = 1

\* C15: _send_command writes to the link only a command with id in [0, N)
\* and direction in {0, 1}: for any other id or direction, and whenever the
\* link is not connected, it returns False and writes nothing; for a valid
\* command on a connected link whose write does not raise it returns True
\* and writes exactly the 4 bytes 0xAA, 0x55, id + 0x0A, direction + 0x0A.
C15_FrameOnlyForValid ==
    [][call'.op = "_send_command" =>
        LET id == call'.arg.magnet_id
            dir == call'.arg.action
            valid == id \in 0 .. N - 1 /\ dir \in {0, 1}
            nothing == ~call'.ok /\ call'.out = <<>> /\ wire' = wire
        IN  /\ ~valid => nothing
            /\ ~call'.arg.connected => nothing
            /\ call'.arg.raised => nothing
            /\ (valid /\ call'.arg.connected /\ ~call'.arg.raised) =>
                    /\ call'.ok
                    /\ call'.out = <<170, 85, id + 10, dir + 10>>
                    /\ wire'[id] = <<dir>>
                    /\ \A j \in Magnets \ {id} : wire'[j] = wire[j]]_vars

\* The extend command for the last actuator was written; the rejected
\* calls are reached on the way to checking the property.
C15_Witness ==
    /\ call.op = "_send_command" /\ call.ok
    /\ call.arg.magnet_id = N - 1 /\ call.arg.action = ACTION_OUT
    /\ call.out = <<170, 85, N + 9, 11>>
    /\ wire[N - 1] = <<ACTION_OUT>>

\* tau * policy + (1 - tau) * target on the parameter grid.
Interpolated(policy, target) ==
    [p \in ParamNames |-> (tau * policy[p] + (TauDen - tau) * target[p]) \div TauDen]

\* C11: the target parameters change only in a training update_model() and
\* in load(): select_action, push, save and an update_model() that does not
\* train leave them (and the policy parameters) as they were; a training
\* update_model() leaves the target parameters at one soft-update step from
\* their old values towards the policy parameters the gradient step produced.
C11_TargetFrame ==
    [][/\ target_net' # target_net => call'.op \in {"update_model", "load"}
       /\ call'.op \in {"push", "save", "select_action"} =>
            /\ target_net' = target_net
            /\ policy_net' = policy_net
       /\ (call'.op = "update_model" /\ upd'.ret # "loss") =>
            /\ target_net' = target_net
            /\ policy_net' = policy_net
       /\ (call'.op = "update_model" /\ upd'.ret = "loss") =>
            target_net' = Interpolated(policy_net', target_net)]_vars

\* A training update with tau = 1/2 raised the policy parameter from 0 to 2
\* and moved the target parameter half the way.
C11_Witness ==
    /\ call.op = "update_model" /\ upd.ret = "loss"
    /\ 2 * tau = TauDen
    /\ \A p \in ParamNames : policy_net[p] = 2 /\ target_net[p] = 1

\* C16: a load() that succeeds leaves the target parameters equal to the
\* policy parameters and both equal to what the file holds; the file holds
\* exactly the policy parameters of the last save() that succeeded; and the
\* two sets are separate: a later training update with tau = 0 changes the
\* policy parameters and not the target parameters.
C16_SaveLoadRoundTrip ==
    [][/\ (call'.op = "load" /\ call'.ok) =>
            /\ target_net' = policy_net'
            /\ state_dict(policy_net') = file
            /\ state_dict(target_net') = file
       /\ (call'.op = "save" /\ call'.ok) =>
            /\ file' = state_dict(policy_net)
            /\ load_state_dict(file') = policy_net
       /\ (file' # file /\ call'.ok) => file' = state_dict(policy_net)
       /\ (call'.op = "update_model" /\ upd'.ret = "loss" /\ tau = 0) =>
            target_net' = target_net]_vars

\* With tau = 0 a load() has just set both parameter sets to a saved value
\* other than the one the agent was built with.
C16_Witness ==
    /\ call.op = "load" /\ call.ok /\ tau = 0
    /\ upd.ret = "loss"
    /\ target_net = policy_net
    /\ \A p \in ParamNames : policy_net[p] = 2
    /\ file = state_dict(policy_net)

\* C17: a training update_model() leaves every target parameter at
\* tau * policy + (1 - tau) * target of the policy parameter after the
\* gradient step and the old target parameter (to the grid's resolution);
\* with tau = 1 it equals that policy parameter exactly.
C17_SoftUpdate ==
    [][(call'.op = "update_model" /\ upd'.ret = "loss") =>
            /\ tau = TauDen => target_net' = policy_net'
            /\ \A p \in ParamNames :
                    LET exact == tau * policy_net'[p] + (TauDen - tau) * target_net[p]
                    IN  /\ TauDen * target_net'[p] <= exact
                        /\ exact < TauDen * (target_net'[p] + 1)]_vars

\* With tau = 1 a training update has moved both parameter sets away from
\* the saved value.
C17_Witness ==
    /\ call.op = "update_model" /\ upd.ret = "loss"
    /\ tau = TauDen
    /\ target_net = policy_net
    /\ file \notin {NoFile, Corrupt}
    /\ load_state_dict(file) # policy_net

\* C18: for every Observation and every permutation of its channel columns
\* _calculate_reward returns the same value for the permuted observation as
\* for the original.
C18_RewardSymmetric ==
    call.op = "_calculate_reward" =>
        /\ call.out.permuted = call.out.original
        /\ \A perm \in ChannelOrders :
                calculate_reward(permute_channels(call.arg.observation, perm))
                    = calculate_reward(call.arg.observation)

\* The reward was computed for an observation with unequal channels in
\* both frames and for a permutation that changes it.
C18_Witness ==
    /\ call.op = "_calculate_reward"
    /\ call.arg.permuted # call.arg.observation
    /\ \A t \in 1 .. NumFrames :
            \E c, d \in Channels : call.arg.observation[t][c] # call.arg.observation[t][d]
    /\ call.out.original < ONE

\* C13: a script that has exited has run both teardown actions: the
\* actuator link was disconnected and the sensor task released, whichever
\* way the loop ended.
C13_TeardownOnExit ==
    loop.pc = "exited" => (loop.disconnected /\ loop.released)

\* C14: when the acquisition of a reset() or step() fails, the call raises
\* and returns nothing, no later reset() or step() is made (the loop is
\* left, not retried), and the training loop has pushed no transition for
\* the failed step: it holds one transition per completed step.
C14_AcquisitionFailurePropagates ==
    loop.exc = "acquisition" =>
        /\ last.raised
        /\ last.mask = NoMask
        /\ loop.pc \in {"finally", "close", "exited"}
        /\ loop.script = "train" => Len(history) = loop.total_steps

\* The training loop was left by the failed acquisition of its second
\* step() and has exited.
C14_Witness ==
    /\ loop.script = "train" /\ loop.exc = "acquisition"
    /\ last.op = "step" /\ last.raised
    /\ loop.total_steps = 1 /\ Len(history) = 1
    /\ loop.pc = "exited"

\* C21: in the training loop and in the evaluation loop every action passed
\* to env.step is true in the mask the immediately preceding reset() or
\* step() returned, and ActuatorState is not changed between the return of
\* that mask and the step that uses it: only the loops' reset() and step()
\* calls change it.
C21_StepUsesReturnedMask ==
    [][/\ (loop.pc = "step" /\ loop'.exc # "KeyboardInterrupt") =>
            /\ last'.op = "step"
            /\ last.op \in {"reset", "step"} /\ ~last.raised
            /\ last.mask = action_masks(magnet_states)
            /\ last'.pre = magnet_states
            /\ last.mask[last'.action]
       /\ magnet_states' # magnet_states =>
            loop.pc \in {"reset", "step", "first_reset", "reset_again"}]_vars

\* C22: every step() that returns, whether its action moved an actuator,
\* was skipped or was the no-op, makes exactly one sensor acquisition, begun
\* after the command of the step (if any) was issued and written and
\* ActuatorState updated; and the reward it returns is computed from the
\* observation of that acquisition (the full reward exactly when every
\* frame of that observation has equal channels).
C22_AcquireAfterAction ==
    (last.op = "step" /\ ~last.raised) =>
        /\ last.acquisitions = 1
        /\ last.sensed.states = magnet_states
        /\ last.sensed.wire = wire
        /\ \A i \in 1 .. Len(last.issued) :
                last.sensed.states[last.issued[i][1]] = last.issued[i][2]
        /\ \A i \in 1 .. Len(last.sent) :
                last.sensed.wire[last.sent[i][3] - OFFSET] = << last.sent[i][4] - OFFSET >>
        /\ last.observation \in SensorReadings
        /\ last.reward = calculate_reward(last.observation)
        /\ last.reward = ONE <=>
                \A t \in 1 .. NumFrames : \A c, d \in Channels :
                    last.observation[t][c] = last.observation[t][d]

\* A step returned that extended the last actuator and acquired an
\* observation with unequal channels.
C22_Witness ==
    /\ last.op = "step" /\ ~last.raised
    /\ last.issued = << <<N - 1, ACTION_OUT>> >>
    /\ last.sent = << Command(N - 1, ACTION_OUT) >>
    /\ last.sensed.states[N - 1] = ACTION_OUT
    /\ last.reward < ONE

\* C23: the mask every reset() and every step() returns is the legality
\* mask of ActuatorState as it is when the call returns; when the call
\* changed ActuatorState it is not the mask of the state before.
C23_MaskOfStateAtReturn ==
    (last.op \in {"reset", "step"} /\ ~last.raised) =>
        /\ last.mask = action_masks(magnet_states)
        /\ magnet_states # last.pre => last.mask # action_masks(last.pre)

\* A step returned that extended the last actuator: the mask it returned
\* allows retracting it and no longer allows extending it.
C23_Witness ==
    /\ last.op = "step" /\ ~last.raised
    /\ last.action = 2 * N - 1 /\ last.pre[N - 1] = ACTION_IN
    /\ last.mask[N - 1] /\ ~last.mask[2 * N - 1]

\* C24: in update_model() the regression target of each sampled transition
\* is its reward when done is true, and its reward plus discount_factor
\* times the largest score, over all actions, that the target parameters
\* give to next_state when done is false; the score compared against it is
\* the one the policy parameters give to the stored action on state.
C24_RegressionTarget ==
    [][(call'.op = "update_model" /\ upd'.ret = "loss") =>
            \A i \in 1 .. BatchSize :
                LET t == buffer[upd'.batch[i]]
                    q == forward(target_net, t.next_state)
                    bootstrap == upd'.expected[i] - t.reward * GammaDen
                IN  /\ t.done => bootstrap = 0
                    /\ ~t.done =>
                            /\ \E a \in ActionSpace : bootstrap = gamma * q[a]
                            /\ \A a \in ActionSpace : bootstrap >= gamma * q[a]
                    /\ upd'.current[i] = forward(policy_net, t.state)[t.action]]_vars

\* An update drew a transition with done true and one with done false whose
\* target holds a bootstrap term, after the two parameter sets had parted.
C24_Witness ==
    /\ call.op = "update_model" /\ upd.ret = "loss"
    /\ \E i, j \in 1 .. BatchSize :
            /\ buffer[upd.batch[i]].done
            /\ upd.expected[i] = buffer[upd.batch[i]].reward * GammaDen
            /\ ~buffer[upd.batch[j]].done
            /\ upd.expected[j] > buffer[upd.batch[j]].reward * GammaDen
            /\ upd.current[j] > 0
    /\ policy_net # target_net

\* C25: every batch update_model() draws has exactly BatchSize entries,
\* taken from BatchSize distinct positions of the replay memory as it is at
\* the call; drawing removes and reorders nothing; and after a draw every
\* batch, the one just drawn included, can be drawn by the next call.
C25_SampleWithoutReplacement ==
    /\ [][(call'.op = "update_model" /\ upd'.ret = "loss") =>
            /\ Len(upd'.batch) = BatchSize
            /\ \A i \in 1 .. BatchSize : upd'.batch[i] \in 1 .. Len(buffer)
            /\ \A i, j \in 1 .. BatchSize : i # j => upd'.batch[i] # upd'.batch[j]
            /\ upd'.len = Len(buffer)
            /\ buffer' = buffer
            /\ history' = history]_vars
    /\ [](upd.ret = "loss" =>
            /\ ENABLED (UpdateCall /\ upd'.ret = "loss" /\ upd'.batch = upd.batch)
            /\ \A p \in 1 .. Len(buffer) :
                    ENABLED (UpdateCall /\ \E i \in 1 .. BatchSize : upd'.batch[i] = p))

\* An update drew its batch, the newest transition first, from a replay
\* memory holding more than one batch.
C25_Witness ==
    /\ call.op = "update_model" /\ upd.ret = "loss"
    /\ Len(buffer) = BatchSize + 1 /\ upd.len = Len(buffer)
    /\ upd.batch[1] = Len(buffer)
    /\ upd.batch[BatchSize] = 1

\* C26: in the training loop every transition pushed to the replay memory
\* has done = false: after each reset() an episode makes at most
\* MAX_STEPS_PER_EPISODE steps, fewer than the truncation threshold
\* max_steps, so no step of the loop returns truncated and no stored
\* transition drops the bootstrap term of its target.
C26_TrainingNeverDone ==
    loop.script = "train" =>
        /\ MAX_STEPS_PER_EPISODE < max_steps
        /\ current_step <= MAX_STEPS_PER_EPISODE
        /\ current_step < max_steps
        /\ ~last.truncated /\ ~last.terminated /\ ~loop.done
        /\ \A i \in 1 .. Len(history) : ~history[i].done
        /\ \A i \in 1 .. Len(buffer) :
                /\ ~buffer[i].done
                /\ 1 - float_of(buffer[i].done) = 1

\* The training loop has pushed the first transition of its second episode,
\* after a full first episode and a training update.
C26_Witness ==
    /\ loop.script = "train" /\ loop.episode = 1 /\ loop.pc = "update"
    /\ Len(history) = MAX_STEPS_PER_EPISODE + 1
    /\ current_step = 1
    /\ upd.ret = "loss"

====
